---- MODULE Spec2Model ----
(***************************************************************************)
(* Model of the QRS detector (src/src/modules/QRSdetector.py), the ECG     *)
(* estimator (src/src/modules/ECGestimator.py) and the channel accessor of *)
(* src/src/modules/StochasticProcess.py.                                   *)
(*                                                                         *)
(* Real numbers are exact rationals <<n, d>> in lowest terms with d > 0:   *)
(* the floating-point rounding of numpy is not modelled.  Arrays are       *)
(* sequences; a Python index k is the sequence index k + 1.                *)
(***************************************************************************)
EXTENDS Integers, Sequences, FiniteSets, TLC

VARIABLES
    pc,                   \* position in the calling pipeline
    err,                  \* the exception raised, "none" when there is none
    sr,                   \* self.sr
    realizations,         \* stochastic_process.realizations
    labels,               \* self.labels
    P_len_samples,        \* ECGestimator fields set by __init__
    QRS_len_samples,
    T_len_samples,
    samples_before_QRS,
    samples_after_QRS,
    peaks,                \* argument of get_real_ECGs
    real_ECGs,            \* results of the estimator's methods
    real_ECGs_positions,
    ECG_averages,
    mu_portions,
    M_matrixes,
    estimated_ECGs,
    segs,                 \* <<mu_P, mu_QRS, mu_T>> handed to matrix_constructor
    M,                    \* result of matrix_constructor
    m,                    \* the window handed to get_optimized_scaled_values
    a,                    \* result of get_optimized_scaled_values
    scaled_mu,            \* result of get_scaled_ECG_complex
    template_duration,    \* QRSdetector fields
    threshold_factor,
    enhanced_QRS,         \* argument of create_qrs_template and detect_qrs
    template,             \* result of create_qrs_template / argument of detect_qrs
    corrected_peaks,      \* results of detect_qrs
    cross_corr_norm,
    index,                \* argument of get_realization_by_index
    realization           \* the array get_realization_by_index returned

vars == <<pc, err, sr, realizations, labels, P_len_samples, QRS_len_samples,
          T_len_samples, samples_before_QRS, samples_after_QRS, peaks,
          real_ECGs, real_ECGs_positions, ECG_averages, mu_portions,
          M_matrixes, estimated_ECGs, segs, M, m, a, scaled_mu,
          template_duration, threshold_factor, enhanced_QRS, template,
          corrected_peaks, cross_corr_norm, index, realization>>

estimatorVars == <<sr, realizations, labels, P_len_samples, QRS_len_samples,
                   T_len_samples, samples_before_QRS, samples_after_QRS, peaks,
                   real_ECGs, real_ECGs_positions, ECG_averages, mu_portions,
                   M_matrixes, estimated_ECGs>>

solveVars == <<segs, M, m, a, scaled_mu>>

detectorVars == <<template_duration, threshold_factor, enhanced_QRS, template,
                  corrected_peaks, cross_corr_norm>>

accessVars == <<index, realization>>

-----------------------------------------------------------------------------
(* Bounds of the model *)

MaxLen == 5        \* samples per channel
MaxPeaks == 2      \* length of the peak list handed to get_real_ECGs
MaxSegLen == 2     \* samples per segment handed to matrix_constructor
MaxSig == 6        \* samples of the enhanced signal

-----------------------------------------------------------------------------
(* Exact arithmetic standing for Python's float arithmetic *)

Abs(x) == IF x < 0 THEN -x ELSE x

Min(x, y) == IF x < y THEN x ELSE y

RECURSIVE GCD(_, _)
GCD(x, y) == IF y = 0 THEN x ELSE GCD(y, x % y)

\* the rational n/d in lowest terms, d # 0
Rat(n, d) ==
    LET g == GCD(Abs(n), Abs(d))
        s == IF d < 0 THEN -1 ELSE 1
    IN  IF n = 0 THEN <<0, 1>> ELSE <<(s * n) \div g, (s * d) \div g>>

R(n) == <<n, 1>>

RAdd(x, y) == Rat(x[1] * y[2] + y[1] * x[2], x[2] * y[2])

RSub(x, y) == Rat(x[1] * y[2] - y[1] * x[2], x[2] * y[2])

RMul(x, y) == Rat(x[1] * y[1], x[2] * y[2])

\* x / y, y # 0
RDiv(x, y) == Rat(x[1] * y[2], x[2] * y[1])

RLt(x, y) == x[1] * y[2] < y[1] * x[2]

RLe(x, y) == x[1] * y[2] <= y[1] * x[2]

\* Python's int(x): truncation towards zero
IntTrunc(x) == IF x[1] >= 0 THEN x[1] \div x[2] ELSE -((-x[1]) \div x[2])

\* Python's s[start:stop] for 0 <= start, 0 <= stop
Slice(s, start, stop) == SubSeq(s, start + 1, Min(stop, Len(s)))

RECURSIVE RSum(_)
RSum(s) == IF s = <<>> THEN R(0) ELSE RAdd(Head(s), RSum(Tail(s)))

\* np.zeros(n)
Zeros(n) == [k \in 1..n |-> R(0)]

-----------------------------------------------------------------------------
(* StochasticProcess *)

num_realizations == Len(realizations)

\* get_realization_by_index for the indices range(num_realizations) yields
GetRealizationByIndex(i) == realizations[i + 1]

\* self.realizations[i] raises IndexError outside -len .. len - 1
SubscriptError(i) == i < -Len(realizations) \/ i >= Len(realizations)

\* self.realizations[i]: the position (from 0) of the channel the subscript
\* selects; a negative subscript counts from the end
Subscript(i) == IF i < 0 THEN Len(realizations) + i ELSE i

\* the exception get_realization_by_index raises, "none" when it returns
RealizationError(i) ==
    IF i < num_realizations
    THEN IF SubscriptError(i) THEN "IndexError" ELSE "none"
    ELSE "ValueError"

\* an array that owns its memory
NoBase == -1

\* array.copy(): the same samples in memory of their own
ArrayCopy(array) == [data |-> array, base |-> NoBase]

-----------------------------------------------------------------------------
(* ECGestimator.__init__ *)

\* int(duration * sr)
LenSamples(duration, rate) == IntTrunc(RMul(duration, R(rate)))

\* (outer_duration + QRS_complex_duration/2) * sr
SamplesAround(outer_duration, QRS_complex_duration, rate) ==
    RMul(RAdd(outer_duration, RDiv(QRS_complex_duration, R(2))), R(rate))

-----------------------------------------------------------------------------
(* ECGestimator.get_real_ECGs *)

WindowStart(qrs_peak) == IntTrunc(RSub(R(qrs_peak), samples_before_QRS))

WindowEnd(qrs_peak) == IntTrunc(RAdd(R(qrs_peak), samples_after_QRS))

\* faulty variant of WindowKept: the end of the window is not checked
WindowKept_NoEndCheck(qrs_peak, signal) ==
    RLt(R(0), RSub(R(qrs_peak), samples_before_QRS))

\* the condition under which a peak's window is kept
WindowKept(qrs_peak, signal) ==
    /\ RLt(R(0), RSub(R(qrs_peak), samples_before_QRS))
    /\ RLt(RAdd(R(qrs_peak), samples_after_QRS), R(Len(signal)))

\* what one pass of the inner loop does to the two lists of a channel
AppendWindow(acc, signal, qrs_peak) ==
    IF WindowKept(qrs_peak, signal)
    THEN [windows   |-> Append(acc.windows,
                               Slice(signal, WindowStart(qrs_peak), WindowEnd(qrs_peak))),
          positions |-> Append(acc.positions,
                               <<WindowStart(qrs_peak), WindowEnd(qrs_peak)>>)]
    ELSE acc

\* the inner loop over the peaks, from the k-th peak on
RECURSIVE PeakLoop(_, _, _)
PeakLoop(signal, k, acc) ==
    IF k > Len(peaks) THEN acc
    ELSE PeakLoop(signal, k + 1, AppendWindow(acc, signal, peaks[k]))

ChannelWindows(i) ==
    PeakLoop(GetRealizationByIndex(i), 1, [windows |-> <<>>, positions |-> <<>>])

\* the keys of the two dictionaries: labels[i] for i in range(num_realizations)
LabelSet == {labels[i + 1] : i \in 0..(num_realizations - 1)}

IndexOfLabel(label) == CHOOSE i \in 0..(num_realizations - 1) : labels[i + 1] = label

GetRealECGs == [label \in LabelSet |-> ChannelWindows(IndexOfLabel(label)).windows]

GetRealECGsPositions ==
    [label \in LabelSet |-> ChannelWindows(IndexOfLabel(label)).positions]

-----------------------------------------------------------------------------
(* ECGestimator.get_ECG_averages *)

\* what np.mean yields for an empty list: the scalar nan (with a warning)
NaNScalar == [nan |-> TRUE, data |-> <<>>]

Array(s) == [nan |-> FALSE, data |-> s]

\* np.mean(windows, axis=0)
MeanAxis0(windows) ==
    IF windows = <<>> THEN NaNScalar
    ELSE Array([j \in 1..Len(windows[1]) |->
                  RDiv(RSum([k \in 1..Len(windows) |-> windows[k][j]]),
                       R(Len(windows)))])

GetECGAverages(ecgs) == [label \in DOMAIN ecgs |-> MeanAxis0(ecgs[label])]

-----------------------------------------------------------------------------
(* ECGestimator.get_mu_portions *)

\* Python's s[start:]
SliceFrom(s, start) == SubSeq(s, start + 1, Len(s))

MuPortions(mu) ==
    << Slice(mu, 0, P_len_samples),
       Slice(mu, P_len_samples, QRS_len_samples + P_len_samples),
       SliceFrom(mu, QRS_len_samples + P_len_samples) >>

\* slicing the scalar nan raises IndexError
MuPortionsFail(averages) == \E label \in DOMAIN averages : averages[label].nan

GetMuPortions(averages) ==
    [label \in DOMAIN averages |-> MuPortions(averages[label].data)]

-----------------------------------------------------------------------------
(* ECGestimator.matrix_constructor, get_M_matrixes *)

\* faulty variant of MatrixConstructor: col_2 is padded at the end only
MatrixConstructor_Unpadded(mu_P, mu_QRS, mu_T) ==
    LET col_1 == mu_P \o Zeros(Len(mu_QRS) + Len(mu_T))
        col_2 == mu_QRS \o Zeros(Len(mu_P) + Len(mu_T))
        col_3 == Zeros(Len(mu_P) + Len(mu_QRS)) \o mu_T
    IN  [r \in 1..Len(col_1) |-> <<col_1[r], col_2[r], col_3[r]>>]

\* the rows of np.column_stack([col_1, col_2, col_3])
MatrixConstructor(mu_P, mu_QRS, mu_T) ==
    LET col_1 == mu_P \o Zeros(Len(mu_QRS) + Len(mu_T))
        col_2 == Zeros(Len(mu_P)) \o mu_QRS \o Zeros(Len(mu_T))
        col_3 == Zeros(Len(mu_P) + Len(mu_QRS)) \o mu_T
    IN  [r \in 1..Len(col_1) |-> <<col_1[r], col_2[r], col_3[r]>>]

GetMMatrixes(portions) ==
    [label \in DOMAIN portions |->
        MatrixConstructor(portions[label][1], portions[label][2], portions[label][3])]

-----------------------------------------------------------------------------
(* ECGestimator.get_optimized_scaled_values *)

\* np.dot(M.T, M)
MtM(mat) ==
    LET e(i, j) == RSum([r \in 1..Len(mat) |-> RMul(mat[r][i], mat[r][j])])
    IN  << <<e(1, 1), e(1, 2), e(1, 3)>>,
           <<e(2, 1), e(2, 2), e(2, 3)>>,
           <<e(3, 1), e(3, 2), e(3, 3)>> >>

\* np.dot(M.T, m)
Mtm(mat, window) ==
    LET e(i) == RSum([r \in 1..Len(mat) |-> RMul(mat[r][i], window[r])])
    IN  <<e(1), e(2), e(3)>>

Others(i) == IF i = 1 THEN <<2, 3>> ELSE IF i = 2 THEN <<1, 3>> ELSE <<1, 2>>

Cofactor(A, i, j) ==
    LET rs == Others(i)
        cs == Others(j)
        minor == RSub(RMul(A[rs[1]][cs[1]], A[rs[2]][cs[2]]),
                      RMul(A[rs[1]][cs[2]], A[rs[2]][cs[1]]))
    IN  IF (i + j) % 2 = 0 THEN minor ELSE RSub(R(0), minor)

Det3(A) ==
    RSum(<<RMul(A[1][1], Cofactor(A, 1, 1)), RMul(A[1][2], Cofactor(A, 1, 2)),
           RMul(A[1][3], Cofactor(A, 1, 3))>>)

\* np.linalg.inv raises LinAlgError exactly when the matrix is singular
Singular(A) == Det3(A) = R(0)

\* np.linalg.inv of a non-singular 3x3 matrix
Inv3(A) ==
    LET d == Det3(A)
        e(i, j) == RDiv(Cofactor(A, j, i), d)
    IN  << <<e(1, 1), e(1, 2), e(1, 3)>>,
           <<e(2, 1), e(2, 2), e(2, 3)>>,
           <<e(3, 1), e(3, 2), e(3, 3)>> >>

\* np.dot of a 3x3 matrix and a 3-vector
MatVec(A, v) ==
    LET e(i) == RSum(<<RMul(A[i][1], v[1]), RMul(A[i][2], v[2]), RMul(A[i][3], v[3])>>)
    IN  <<e(1), e(2), e(3)>>

\* the exception get_optimized_scaled_values raises, "none" when it returns
SolveError(mat, window) ==
    IF Singular(MtM(mat)) THEN "LinAlgError"
    ELSE IF Len(window) # Len(mat) THEN "ValueError"
    ELSE "none"

\* faulty variant of GetOptimizedScaledValues: MtM is not inverted
GetOptimizedScaledValues_NoInverse(mat, window) ==
    MatVec(MtM(mat), Mtm(mat, window))

GetOptimizedScaledValues(mat, window) ==
    LET MTM_inv == Inv3(MtM(mat))
    IN  MatVec(MTM_inv, Mtm(mat, window))

-----------------------------------------------------------------------------
(* ECGestimator.get_scaled_ECG_complex *)

Scale(mu, coeff) == [k \in 1..Len(mu) |-> RMul(mu[k], coeff)]

GetScaledECGComplex(coeffs, mu_P, mu_QRS, mu_T) ==
    Scale(mu_P, coeffs[1]) \o Scale(mu_QRS, coeffs[2]) \o Scale(mu_T, coeffs[3])

-----------------------------------------------------------------------------
(* ECGestimator.get_estimated_ECGs *)

\* faulty variant of AppendEstimate: the estimate is put in front of the list
AppendEstimate_InFront(list, ecgs, matrixes, portions, label, i) ==
    LET real_complex == ecgs[label][i + 1]
        coeffs == GetOptimizedScaledValues(matrixes[label], real_complex)
    IN  <<GetScaledECGComplex(coeffs, portions[label][1],
                              portions[label][2], portions[label][3])>> \o list

\* one pass of the inner loop: the estimate of the i-th window (Python index)
\* of a channel is appended to that channel's list
AppendEstimate(list, ecgs, matrixes, portions, label, i) ==
    LET real_complex == ecgs[label][i + 1]
        coeffs == GetOptimizedScaledValues(matrixes[label], real_complex)
    IN  Append(list, GetScaledECGComplex(coeffs, portions[label][1],
                                         portions[label][2], portions[label][3]))

RECURSIVE EstimateLoop(_, _, _, _, _, _)
EstimateLoop(list, ecgs, matrixes, portions, label, i) ==
    IF i >= Len(ecgs[label]) THEN list
    ELSE EstimateLoop(AppendEstimate(list, ecgs, matrixes, portions, label, i),
                      ecgs, matrixes, portions, label, i + 1)

\* some window's solve raises: the call raises and returns nothing
EstimateFails(ecgs, matrixes) ==
    \E label \in DOMAIN ecgs : \E i \in 1..Len(ecgs[label]) :
        SolveError(matrixes[label], ecgs[label][i]) # "none"

GetEstimatedECGs(ecgs, matrixes, portions) ==
    [label \in DOMAIN ecgs |-> EstimateLoop(<<>>, ecgs, matrixes, portions, label, 0)]


-----------------------------------------------------------------------------
(* Inputs *)

SampleValues == {0, 1}

\* channels of L samples alternating between two values
ChannelPool(L) ==
    {[j \in 1..L |-> R(IF j % 2 = 1 THEN u ELSE v)] : u \in SampleValues, v \in SampleValues}

RealizationCounts == {1, 2}

LabelNames == <<"AECG1", "AECG2", "AECG3">>

\* a process: equal-length channels, as StochasticProcess.__init__ enforces
Processes(L) == UNION {[1..n -> ChannelPool(L)] : n \in RealizationCounts}

\* wave durations in seconds
Durations == {Rat(0, 1), Rat(1, 4), Rat(1, 2)}

SampleRates == {2, 3}

\* strictly increasing peak lists, as detect_qrs produces them
PeakLists(L) ==
    {s \in UNION {[1..n -> 0..L] : n \in 0..MaxPeaks} :
        \A i \in 1..(Len(s) - 1) : s[i] < s[i + 1]}

Unset == <<>>

estimatorIdle ==
    /\ sr = 0 /\ realizations = Unset /\ labels = Unset
    /\ P_len_samples = 0 /\ QRS_len_samples = 0 /\ T_len_samples = 0
    /\ samples_before_QRS = R(0) /\ samples_after_QRS = R(0) /\ peaks = Unset
    /\ real_ECGs = Unset /\ real_ECGs_positions = Unset /\ ECG_averages = Unset
    /\ mu_portions = Unset /\ M_matrixes = Unset /\ estimated_ECGs = Unset

solveIdle == segs = Unset /\ M = Unset /\ m = Unset /\ a = Unset /\ scaled_mu = Unset

detectorIdle ==
    /\ template_duration = R(0) /\ threshold_factor = R(0) /\ enhanced_QRS = Unset
    /\ template = Unset /\ corrected_peaks = Unset /\ cross_corr_norm = Unset

accessIdle == index = 0 /\ realization = Unset

-----------------------------------------------------------------------------
(* The estimation pipeline: an ECGestimator is constructed over a process,  *)
(* then its methods are called in the order their arguments require.       *)

Init ==
    \E proc \in Processes(MaxLen), rate \in SampleRates, pk \in PeakLists(MaxLen),
       P_wave_duration \in Durations, QRS_complex_duration \in Durations,
       T_wave_duration \in Durations :
        /\ pc = "constructed" /\ err = "none"
        /\ sr = rate
        /\ realizations = proc
        /\ labels = SubSeq(LabelNames, 1, Len(proc))
        /\ P_len_samples = LenSamples(P_wave_duration, rate)
        /\ QRS_len_samples = LenSamples(QRS_complex_duration, rate)
        /\ T_len_samples = LenSamples(T_wave_duration, rate)
        /\ samples_before_QRS = SamplesAround(P_wave_duration, QRS_complex_duration, rate)
        /\ samples_after_QRS = SamplesAround(T_wave_duration, QRS_complex_duration, rate)
        /\ peaks = pk
        /\ real_ECGs = Unset /\ real_ECGs_positions = Unset /\ ECG_averages = Unset
        /\ mu_portions = Unset /\ M_matrixes = Unset /\ estimated_ECGs = Unset
        /\ solveIdle /\ detectorIdle /\ accessIdle

get_real_ECGs ==
    /\ pc = "constructed"
    /\ real_ECGs' = GetRealECGs
    /\ real_ECGs_positions' = GetRealECGsPositions
    /\ pc' = "windows"
    /\ UNCHANGED <<err, sr, realizations, labels, P_len_samples, QRS_len_samples,
                   T_len_samples, samples_before_QRS, samples_after_QRS, peaks,
                   ECG_averages, mu_portions, M_matrixes, estimated_ECGs>>
    /\ UNCHANGED <<solveVars, detectorVars, accessVars>>

get_ECG_averages ==
    /\ pc = "windows"
    /\ ECG_averages' = GetECGAverages(real_ECGs)
    /\ pc' = "averaged"
    /\ UNCHANGED <<err, sr, realizations, labels, P_len_samples, QRS_len_samples,
                   T_len_samples, samples_before_QRS, samples_after_QRS, peaks,
                   real_ECGs, real_ECGs_positions, mu_portions, M_matrixes,
                   estimated_ECGs>>
    /\ UNCHANGED <<solveVars, detectorVars, accessVars>>

get_mu_portions ==
    /\ pc = "averaged"
    /\ IF MuPortionsFail(ECG_averages)
       THEN pc' = "error" /\ err' = "IndexError" /\ UNCHANGED mu_portions
       ELSE pc' = "portioned" /\ mu_portions' = GetMuPortions(ECG_averages)
                              /\ UNCHANGED err
    /\ UNCHANGED <<sr, realizations, labels, P_len_samples, QRS_len_samples,
                   T_len_samples, samples_before_QRS, samples_after_QRS, peaks,
                   real_ECGs, real_ECGs_positions, ECG_averages, M_matrixes,
                   estimated_ECGs>>
    /\ UNCHANGED <<solveVars, detectorVars, accessVars>>

get_M_matrixes ==
    /\ pc = "portioned"
    /\ M_matrixes' = GetMMatrixes(mu_portions)
    /\ pc' = "matrixes"
    /\ UNCHANGED <<err, sr, realizations, labels, P_len_samples, QRS_len_samples,
                   T_len_samples, samples_before_QRS, samples_after_QRS, peaks,
                   real_ECGs, real_ECGs_positions, ECG_averages, mu_portions,
                   estimated_ECGs>>
    /\ UNCHANGED <<solveVars, detectorVars, accessVars>>

get_estimated_ECGs ==
    /\ pc = "matrixes"
    /\ IF EstimateFails(real_ECGs, M_matrixes)
       THEN pc' = "error" /\ err' = "LinAlgError" /\ UNCHANGED estimated_ECGs
       ELSE pc' = "estimated"
            /\ estimated_ECGs' = GetEstimatedECGs(real_ECGs, M_matrixes, mu_portions)
            /\ UNCHANGED err
    /\ UNCHANGED <<sr, realizations, labels, P_len_samples, QRS_len_samples,
                   T_len_samples, samples_before_QRS, samples_after_QRS, peaks,
                   real_ECGs, real_ECGs_positions, ECG_averages, mu_portions,
                   M_matrixes>>
    /\ UNCHANGED <<solveVars, detectorVars, accessVars>>

Next ==
    \/ get_real_ECGs
    \/ get_ECG_averages
    \/ get_mu_portions
    \/ get_M_matrixes
    \/ get_estimated_ECGs

Spec == Init /\ [][Next]_vars


-----------------------------------------------------------------------------
(* Claims about the estimation pipeline (specification Spec) *)

Extracted == pc \in {"windows", "averaged", "portioned", "matrixes", "estimated", "error"}

\* the peak's window would overflow the channel
Overflows(qrs_peak, signal) ==
    \/ RLt(RSub(R(qrs_peak), samples_before_QRS), R(0))
    \/ RLe(R(Len(signal)), RAdd(R(qrs_peak), samples_after_QRS))

\* the recorded bounds are those of a strictly increasing selection of the
\* peaks that do not overflow
FromKeptPeaks(pos, signal) ==
    LET Kept == {j \in 1..Len(peaks) : ~Overflows(peaks[j], signal)}
    IN  \E f \in [1..Len(pos) -> Kept] :
            /\ \A k \in 1..(Len(pos) - 1) : f[k] < f[k + 1]
            /\ \A k \in 1..Len(pos) :
                   pos[k] = <<WindowStart(peaks[f[k]]), WindowEnd(peaks[f[k]])>>

\* the window spans at least one sample whatever the peak
SpansASample == RLt(R(0), samples_before_QRS) \/ RLe(R(1), samples_after_QRS)

BoundsInside(strict) ==
    \A i \in 1..Len(labels) :
        LET signal == realizations[i]
            pos == real_ECGs_positions[labels[i]]
            win == real_ECGs[labels[i]]
        IN  /\ Len(win) = Len(pos)
            /\ FromKeptPeaks(pos, signal)
            /\ \A k \in 1..Len(pos) :
                   /\ 0 <= pos[k][1] /\ pos[k][1] <= pos[k][2]
                   /\ pos[k][2] <= Len(signal)
                   /\ strict => pos[k][1] < pos[k][2]
                   /\ win[k] = [j \in 1..(pos[k][2] - pos[k][1]) |-> signal[pos[k][1] + j]]

\* C2 as stated: after get_real_ECGs, a peak whose window overflows the
\* channel contributes no window and no bounds entry, every recorded pair has
\* 0 <= start < end <= len(channel), and the window at the same position is
\* channel[start:end].
C2_BoundaryExclusionStrict == Extracted => BoundsInside(TRUE)

\* C2 (amended): as above with 0 <= start <= end <= len(channel), and
\* start < end whenever samples_before_QRS > 0 or samples_after_QRS >= 1.
C2_BoundaryExclusion == Extracted => BoundsInside(SpansASample)

\* a channel keeps one peak's window while another peak of the list overflows
C2_Witness ==
    /\ pc = "windows"
    /\ \E i \in 1..Len(labels) :
           /\ Len(real_ECGs[labels[i]]) = 1
           /\ Len(real_ECGs[labels[i]][1]) >= 2
           /\ \E j \in 1..Len(peaks) : Overflows(peaks[j], realizations[i])

\* C3: get_ECG_averages fails for a channel whose window list is empty, so it
\* returns averages only when every channel has at least one window.
C3_EmptyChannelFails ==
    (pc = "averaged") => \A label \in DOMAIN real_ECGs : real_ECGs[label] # <<>>

\* C4: every kept window has P_len_samples + QRS_len_samples + T_len_samples
\* samples, and the three segments of get_mu_portions have exactly these
\* lengths.
C4_WindowLength ==
    /\ Extracted =>
           \A label \in DOMAIN real_ECGs : \A k \in 1..Len(real_ECGs[label]) :
               Len(real_ECGs[label][k]) = P_len_samples + QRS_len_samples + T_len_samples
    /\ (pc \in {"portioned", "matrixes", "estimated"}) =>
           \A label \in DOMAIN mu_portions :
               /\ Len(mu_portions[label][1]) = P_len_samples
               /\ Len(mu_portions[label][2]) = QRS_len_samples
               /\ Len(mu_portions[label][3]) = T_len_samples

\* C5: get_estimated_ECGs returns, for every label, as many estimates as the
\* channel has windows, the i-th being the scaled complex of the i-th window
\* solved against that label's matrix and segments.
C5_EstimatesAligned ==
    (pc = "estimated") =>
        /\ DOMAIN estimated_ECGs = DOMAIN real_ECGs
        /\ \A label \in DOMAIN real_ECGs :
               /\ Len(estimated_ECGs[label]) = Len(real_ECGs[label])
               /\ \A i \in 1..Len(real_ECGs[label]) :
                      estimated_ECGs[label][i] =
                          GetScaledECGComplex(
                              GetOptimizedScaledValues(M_matrixes[label], real_ECGs[label][i]),
                              mu_portions[label][1], mu_portions[label][2],
                              mu_portions[label][3])

\* two channels with different bases and different estimates, two windows
\* each, the estimates of the first channel's two windows differing
C5_Witness ==
    /\ pc = "estimated"
    /\ Len(labels) = 2
    /\ M_matrixes[labels[1]] # M_matrixes[labels[2]]
    /\ \A i \in 1..2 : Len(estimated_ECGs[labels[i]]) = 2
    /\ estimated_ECGs[labels[1]][1] # estimated_ECGs[labels[1]][2]
    /\ estimated_ECGs[labels[1]] # estimated_ECGs[labels[2]]


\* the bounds of the peaks of the list whose windows do not overflow the
\* channel, in the order of the list
BoundsOfInside(signal) ==
    LET F[k \in 0..Len(peaks)] ==
            IF k = 0 THEN <<>>
            ELSE IF Overflows(peaks[k], signal) THEN F[k - 1]
                 ELSE Append(F[k - 1], <<WindowStart(peaks[k]), WindowEnd(peaks[k])>>)
    IN  F[Len(peaks)]

\* C15: get_real_ECGs excludes a peak only when its window overflows the
\* channel: every peak with peak - before >= 0 and peak + after < len(channel)
\* contributes one window and one bounds entry to every channel, in the order
\* of the peak list, so all channels have the same bounds list.
C15_KeptWhenInside ==
    Extracted =>
        /\ \A i \in 1..Len(labels) :
               /\ real_ECGs_positions[labels[i]] = BoundsOfInside(realizations[i])
               /\ Len(real_ECGs[labels[i]]) = Len(real_ECGs_positions[labels[i]])
        /\ \A i \in 1..Len(labels) :
               real_ECGs_positions[labels[i]] = real_ECGs_positions[labels[1]]


-----------------------------------------------------------------------------
(* The least-squares fit on its own: matrix_constructor,                   *)
(* get_optimized_scaled_values and get_scaled_ECG_complex called on a      *)
(* segment triple and a window.                                            *)

SegValues == {R(0), Rat(1, 4), R(1)}

Segments == UNION {[1..n -> SegValues] : n \in 0..MaxSegLen}

Ramp(n) == [k \in 1..n |-> R(k)]

\* the windows tried against a triple: the triple's own concatenation and a ramp
WindowsFor(triple) ==
    {triple[1] \o triple[2] \o triple[3],
     Ramp(Len(triple[1]) + Len(triple[2]) + Len(triple[3]))}

InitSolve ==
    \E mu_P \in Segments, mu_QRS \in Segments, mu_T \in Segments :
        \E window \in WindowsFor(<<mu_P, mu_QRS, mu_T>>) :
            /\ pc = "segments" /\ err = "none"
            /\ segs = <<mu_P, mu_QRS, mu_T>>
            /\ m = window
            /\ M = Unset /\ a = Unset /\ scaled_mu = Unset
            /\ estimatorIdle /\ detectorIdle /\ accessIdle

matrix_constructor ==
    /\ pc = "segments"
    /\ M' = MatrixConstructor(segs[1], segs[2], segs[3])
    /\ pc' = "matrix"
    /\ UNCHANGED <<err, segs, m, a, scaled_mu, estimatorVars, detectorVars, accessVars>>

get_optimized_scaled_values ==
    /\ pc = "matrix"
    /\ IF SolveError(M, m) # "none"
       THEN pc' = "error" /\ err' = SolveError(M, m) /\ UNCHANGED a
       ELSE pc' = "solved" /\ a' = GetOptimizedScaledValues(M, m) /\ UNCHANGED err
    /\ UNCHANGED <<segs, M, m, scaled_mu, estimatorVars, detectorVars, accessVars>>

get_scaled_ECG_complex ==
    /\ pc = "solved"
    /\ scaled_mu' = GetScaledECGComplex(a, segs[1], segs[2], segs[3])
    /\ pc' = "scaled"
    /\ UNCHANGED <<err, segs, M, m, a, estimatorVars, detectorVars, accessVars>>

NextSolve ==
    \/ matrix_constructor
    \/ get_optimized_scaled_values
    \/ get_scaled_ECG_complex

SpecSolve == InitSolve /\ [][NextSolve]_vars

-----------------------------------------------------------------------------
(* Claims about the least-squares fit (specification SpecSolve) *)

\* the squared L2 norm of a segment
NormSq(mu) == RSum([k \in 1..Len(mu) |-> RMul(mu[k], mu[k])])

\* the squared norm below which a segment counts as near-zero
NearZeroNormSq == Rat(1, 8)

NearZeroNorm(mu) == RLe(NormSq(mu), NearZeroNormSq)

\* C6: get_optimized_scaled_values signals an error and returns no
\* coefficients whenever one of the three segments has zero or near-zero norm.
C6_NearZeroNormFails ==
    (pc \in {"solved", "scaled"}) => \A i \in 1..3 : ~NearZeroNorm(segs[i])

C8_BlockDiagonal ==
    (pc \in {"matrix", "solved", "scaled", "error"}) =>
        LET offset == <<0, Len(segs[1]), Len(segs[1]) + Len(segs[2])>>
        IN  /\ Len(M) = Len(segs[1]) + Len(segs[2]) + Len(segs[3])
            /\ \A r \in 1..Len(M) :
                   /\ Len(M[r]) = 3
                   /\ Cardinality({i \in 1..3 : M[r][i] # R(0)}) <= 1
                   /\ \A i \in 1..3 :
                          M[r][i] = IF offset[i] < r /\ r <= offset[i] + Len(segs[i])
                                    THEN segs[i][r - offset[i]] ELSE R(0)
            /\ MtM(M) = [i \in 1..3 |-> [j \in 1..3 |->
                            IF i = j THEN NormSq(segs[i]) ELSE R(0)]]

\* a matrix of three non-empty segments with non-zero entries in every column
C8_Witness ==
    /\ pc = "matrix"
    /\ \A i \in 1..3 : Len(segs[i]) = 2 /\ NormSq(segs[i]) # R(0)
    /\ Len(M) = 6


-----------------------------------------------------------------------------
(* QRSdetector.__init__ *)

\* faulty variant of InvalidConfiguration: a zero duration is accepted
InvalidConfiguration_ZeroAccepted(duration, factor) ==
    RLt(duration, R(0)) \/ RLt(R(1), factor)

\* the constructor raises ValueError for these arguments
InvalidConfiguration(duration, factor) ==
    RLe(duration, R(0)) \/ RLt(R(1), factor)

-----------------------------------------------------------------------------
(* QRSdetector.create_qrs_template *)

QrsLength == IntTrunc(RMul(template_duration, R(sr)))

\* faulty variant of HalfQrs: the half is rounded up
HalfQrs_RoundedUp == (QrsLength + 1) \div 2

HalfQrs == QrsLength \div 2

\* len(enhanced_QRS) // window_length
NumWindows(enhanced) == Len(enhanced) \div sr

RAbs(x) == <<Abs(x[1]), x[2]>>

\* np.argmax(np.abs(segment)): the first index (from 0) of the largest |value|
ArgMaxAbs(segment) ==
    CHOOSE k \in 0..(Len(segment) - 1) :
        /\ \A j \in 1..Len(segment) : RLe(RAbs(segment[j]), RAbs(segment[k + 1]))
        /\ \A j \in 1..k : RLt(RAbs(segment[j]), RAbs(segment[k + 1]))

\* the index, in the whole signal, of the R peak of the i-th window
GlobalMaxIdx(enhanced, i) ==
    i * sr + ArgMaxAbs(Slice(enhanced, i * sr, i * sr + sr))

\* faulty variant of TemplateKept: a window ending at the last sample is kept
TemplateKept_UpToEnd(enhanced, global_max_idx) ==
    global_max_idx - HalfQrs >= 0 /\ global_max_idx + HalfQrs <= Len(enhanced)

\* the condition under which the window around global_max_idx is kept
TemplateKept(enhanced, global_max_idx) ==
    global_max_idx - HalfQrs >= 0 /\ global_max_idx + HalfQrs < Len(enhanced)

\* the loop over the windows, from the i-th on
RECURSIVE TemplateLoop(_, _, _)
TemplateLoop(enhanced, i, templates) ==
    IF i >= NumWindows(enhanced) THEN templates
    ELSE LET g == GlobalMaxIdx(enhanced, i)
         IN  TemplateLoop(enhanced, i + 1,
                 IF TemplateKept(enhanced, g)
                 THEN Append(templates, Slice(enhanced, g - HalfQrs, g + HalfQrs))
                 ELSE templates)

Templates(enhanced) == TemplateLoop(enhanced, 0, <<>>)

\* final_template = np.mean(templates, axis=0), for a non-empty list
FinalTemplate(enhanced) == MeanAxis0(Templates(enhanced)).data

-----------------------------------------------------------------------------
(* QRSdetector.detect_qrs *)

\* correlate(enhanced_QRS, template, mode='full')[len(template)-1:]
CrossCorr(enhanced, tmpl) ==
    [n \in 1..Len(enhanced) |->
        RSum([j \in 1..Min(Len(tmpl), Len(enhanced) - n + 1) |->
                 RMul(enhanced[n + j - 1], tmpl[j])])]

\* np.linalg.norm(template)**2
NormFactor(tmpl) == RSum([j \in 1..Len(tmpl) |-> RMul(tmpl[j], tmpl[j])])

\* 0/0, what the division by a zero norm_factor yields
NaN == <<0, 0>>

CrossCorrNorm(enhanced, tmpl) ==
    LET cross_corr == CrossCorr(enhanced, tmpl)
        norm_factor == NormFactor(tmpl)
    IN  [n \in 1..Len(enhanced) |->
            IF norm_factor = R(0) THEN NaN ELSE RDiv(cross_corr[n], norm_factor)]

\* np.max of a non-empty array without nan
RECURSIVE RMax(_)
RMax(x) ==
    IF Len(x) = 1 THEN x[1]
    ELSE LET rest == RMax(Tail(x)) IN IF RLt(x[1], rest) THEN rest ELSE x[1]

\* find_peaks, local maxima: the end (index from 0) of the plateau that starts
\* at index i, scanning from i_ahead
RECURSIVE PlateauAhead(_, _, _)
PlateauAhead(x, i, i_ahead) ==
    IF i_ahead < Len(x) - 1 /\ x[i_ahead + 1] = x[i + 1]
    THEN PlateauAhead(x, i, i_ahead + 1)
    ELSE i_ahead

\* find_peaks, local maxima: the midpoints of the plateaus that rise above
\* both neighbours, scanning from index i (from 0)
RECURSIVE LocalMaxima(_, _, _)
LocalMaxima(x, i, midpoints) ==
    IF i >= Len(x) - 1 THEN midpoints
    ELSE IF RLt(x[i], x[i + 1])
         THEN LET i_ahead == PlateauAhead(x, i, i + 1)
              IN  IF RLt(x[i_ahead + 1], x[i + 1])
                  THEN LocalMaxima(x, i_ahead + 1,
                                   Append(midpoints, (i + i_ahead - 1) \div 2))
                  ELSE LocalMaxima(x, i + 1, midpoints)
         ELSE LocalMaxima(x, i + 1, midpoints)

\* find_peaks, height: the maxima at least as high as the minimal height
RECURSIVE SelectByHeight(_, _, _)
SelectByHeight(x, maxima, height) ==
    IF maxima = <<>> THEN <<>>
    ELSE IF RLe(height, x[Head(maxima) + 1])
         THEN <<Head(maxima)>> \o SelectByHeight(x, Tail(maxima), height)
         ELSE SelectByHeight(x, Tail(maxima), height)

\* np.argsort(priority): the orders that sort the priorities; the order of
\* equal priorities is left open by the default sort
ArgSorts(x, maxima) ==
    {order \in [1..Len(maxima) -> 1..Len(maxima)] :
        /\ \A k1 \in 1..Len(maxima) : \A k2 \in 1..Len(maxima) :
               k1 # k2 => order[k1] # order[k2]
        /\ \A k \in 1..(Len(maxima) - 1) :
               RLe(x[maxima[order[k]] + 1], x[maxima[order[k + 1]] + 1])}

\* find_peaks, distance: from the highest priority down, a maximum that is
\* still kept removes the maxima closer to it than the distance
RECURSIVE SelectByPeakDistance(_, _, _, _, _)
SelectByPeakDistance(maxima, order, distance, i, keep) ==
    IF i < 1 THEN keep
    ELSE LET j == order[i]
         IN  SelectByPeakDistance(maxima, order, distance, i - 1,
                 IF keep[j]
                 THEN [k \in 1..Len(maxima) |->
                          keep[k] /\ (k = j \/ Abs(maxima[k] - maxima[j]) >= distance)]
                 ELSE keep)

KeptMaxima(maxima, keep) == 
    LET F[k \in 0..Len(maxima)] ==
            IF k = 0 THEN <<>>
            ELSE IF keep[k] THEN Append(F[k - 1], maxima[k]) ELSE F[k - 1]
    IN  F[Len(maxima)]

\* distance = self.sr // 4
PeakDistance == sr \div 4

\* the exception detect_qrs raises, "none" when it returns: an empty template
\* cannot be correlated, and find_peaks rejects a distance below 1
DetectError(enhanced, tmpl) ==
    IF tmpl = <<>> \/ PeakDistance < 1 THEN "ValueError" ELSE "none"

\* find_peaks, before the distance condition: the local maxima that reach
\* height = threshold_factor * np.max(cross_corr_norm)
HighMaxima(x) ==
    IF x[1] = NaN THEN <<>>
    ELSE SelectByHeight(x, LocalMaxima(x, 1, <<>>), RMul(threshold_factor, RMax(x)))

\* find_peaks(cross_corr_norm, height=..., distance=...) for one sort order
FindPeaks(x, order) ==
    LET maxima == HighMaxima(x)
    IN  KeptMaxima(maxima,
            SelectByPeakDistance(maxima, order, PeakDistance, Len(maxima),
                                 [k \in 1..Len(maxima) |-> TRUE]))

\* peaks + len(template) // 2
CorrectedPeaks(found, tmpl) == [k \in 1..Len(found) |-> found[k] + Len(tmpl) \div 2]


-----------------------------------------------------------------------------
(* The detector: a QRSdetector is constructed, a template is created from  *)
(* the enhanced signal or supplied by the caller, and the peaks are        *)
(* detected with it.                                                       *)

SigValues == {R(-2), R(0), R(1)}

EnhancedSignals == [1..MaxSig -> SigValues]

DetectorRates == {2, 3, 4, 13}

\* the (template_duration, threshold_factor) pairs tried
DetectorArguments ==
    ({Rat(1, 2), Rat(3, 4)} \X {Rat(1, 2), R(1)})
        \cup {<<R(0), Rat(1, 2)>>, <<Rat(1, 2), Rat(3, 2)>>, <<Rat(-1, 2), R(1)>>}

\* templates a caller supplies to detect_qrs; <<>> when the caller supplies none
SuppliedTemplates == {<<>>, <<R(1)>>, <<R(1), R(-2)>>, <<R(1), R(0), R(0), R(1)>>}

InitDetect ==
    \E enhanced \in EnhancedSignals, rate \in DetectorRates,
       args \in DetectorArguments, supplied \in SuppliedTemplates :
        /\ pc = "new" /\ err = "none"
        /\ sr = rate
        /\ template_duration = args[1]
        /\ threshold_factor = args[2]
        /\ enhanced_QRS = enhanced
        /\ template = supplied
        /\ corrected_peaks = Unset /\ cross_corr_norm = Unset
        /\ realizations = Unset /\ labels = Unset
        /\ P_len_samples = 0 /\ QRS_len_samples = 0 /\ T_len_samples = 0
        /\ samples_before_QRS = R(0) /\ samples_after_QRS = R(0) /\ peaks = Unset
        /\ real_ECGs = Unset /\ real_ECGs_positions = Unset /\ ECG_averages = Unset
        /\ mu_portions = Unset /\ M_matrixes = Unset /\ estimated_ECGs = Unset
        /\ solveIdle /\ accessIdle

detectorRest == <<realizations, labels, P_len_samples, QRS_len_samples,
                  T_len_samples, samples_before_QRS, samples_after_QRS, peaks,
                  real_ECGs, real_ECGs_positions, ECG_averages, mu_portions,
                  M_matrixes, estimated_ECGs, solveVars, accessVars>>

QRSdetector_init ==
    /\ pc = "new"
    /\ IF InvalidConfiguration(template_duration, threshold_factor)
       THEN pc' = "config_error" /\ err' = "ValueError"
       ELSE pc' = "ready" /\ UNCHANGED err
    /\ UNCHANGED <<sr, detectorVars, detectorRest>>

create_qrs_template ==
    /\ pc = "ready"
    /\ IF Templates(enhanced_QRS) = <<>>
       THEN pc' = "template_error" /\ err' = "ValueError" /\ UNCHANGED template
       ELSE pc' = "templated" /\ template' = FinalTemplate(enhanced_QRS)
                              /\ UNCHANGED err
    /\ UNCHANGED <<sr, template_duration, threshold_factor, enhanced_QRS,
                   corrected_peaks, cross_corr_norm, detectorRest>>

detect_qrs ==
    /\ \/ pc = "templated"
       \/ pc = "ready" /\ template # <<>>
    /\ IF DetectError(enhanced_QRS, template) # "none"
       THEN /\ pc' = "detect_error"
            /\ err' = DetectError(enhanced_QRS, template)
            /\ UNCHANGED <<corrected_peaks, cross_corr_norm>>
       ELSE LET x == CrossCorrNorm(enhanced_QRS, template)
            IN  \E order \in ArgSorts(x, HighMaxima(x)) :
                    /\ pc' = "detected"
                    /\ corrected_peaks' = CorrectedPeaks(FindPeaks(x, order), template)
                    /\ cross_corr_norm' = x
                    /\ UNCHANGED err
    /\ UNCHANGED <<sr, template_duration, threshold_factor, enhanced_QRS,
                   template, detectorRest>>

NextDetect ==
    \/ QRSdetector_init
    \/ create_qrs_template
    \/ detect_qrs

SpecDetect == InitDetect /\ [][NextDetect]_vars


-----------------------------------------------------------------------------
(* Claims about the detector (specification SpecDetect) *)

\* C1: the peaks detect_qrs returns are strictly increasing and consecutive
\* peaks differ by at least sr/4 samples: 4 * (p[k+1] - p[k]) >= sr.
C1_PeakSpacing ==
    (pc = "detected") =>
        \A k \in 1..(Len(corrected_peaks) - 1) :
            /\ corrected_peaks[k] < corrected_peaks[k + 1]
            /\ 4 * (corrected_peaks[k + 1] - corrected_peaks[k]) >= sr

\* index g (from 0) is the first sample of largest absolute amplitude of the
\* i-th complete one-second window
IsWindowMaximum(g, i) ==
    /\ i * sr <= g /\ g < (i + 1) * sr
    /\ \A j \in (i * sr)..((i + 1) * sr - 1) :
           /\ RLe(RAbs(enhanced_QRS[j + 1]), RAbs(enhanced_QRS[g + 1]))
           /\ j < g => RLt(RAbs(enhanced_QRS[j + 1]), RAbs(enhanced_QRS[g + 1]))

\* the maxima g whose samples g - half_qrs .. g + half_qrs all lie in the signal
SurvivingMaxima ==
    {g \in 0..(Len(enhanced_QRS) - 1) :
        /\ \E i \in 0..(Len(enhanced_QRS) \div sr - 1) : IsWindowMaximum(g, i)
        /\ g - HalfQrs >= 0
        /\ g + HalfQrs <= Len(enhanced_QRS) - 1}

C10_TemplateLength ==
    (pc = "templated") =>
        /\ Len(template) =
               2 * IntTrunc(RDiv(RMul(template_duration, R(sr)), R(2)))
        /\ Len(template) % 2 = 0

\* a template made with an odd int(template_duration * sr)
C10_Witness ==
    /\ pc = "templated"
    /\ QrsLength = 3
    /\ Len(template) = 2

\* the detector exists: the constructor returned
Constructed == pc \in {"ready", "templated", "template_error", "detected", "detect_error"}

\* C11: the constructor raises ValueError if template_duration <= 0 or
\* threshold_factor > 1 and returns for template_duration > 0 with
\* threshold_factor <= 1; create_qrs_template and detect_qrs only ever run on
\* a detector with template_duration > 0 and threshold_factor <= 1, and
\* nothing runs after the constructor has raised.
C11_ConfigurationChecked ==
    /\ (pc = "config_error") =>
           /\ err = "ValueError"
           /\ template_duration[1] <= 0 \/ threshold_factor[1] > threshold_factor[2]
           /\ corrected_peaks = Unset /\ cross_corr_norm = Unset
    /\ Constructed =>
           template_duration[1] > 0 /\ threshold_factor[1] <= threshold_factor[2]

\* the constructor raised for a threshold factor above 1 with a valid duration
C11_Witness ==
    /\ pc = "config_error"
    /\ template_duration[1] > 0
    /\ threshold_factor[1] > threshold_factor[2]

\* C14: every index detect_qrs returns is a sample index of the enhanced
\* signal: 0 <= p <= len(enhanced_QRS) - 1.
C14_PeaksInsideSignal ==
    (pc = "detected") =>
        \A k \in 1..Len(corrected_peaks) :
            0 <= corrected_peaks[k] /\ corrected_peaks[k] <= Len(enhanced_QRS) - 1


\* the copies start at samples at least sr apart, do not overlap, and lie
\* fully inside a signal of n samples
WellSeparated(starts, tmpl, n) ==
    /\ \A s \in starts : 0 <= s /\ s + Len(tmpl) <= n
    /\ \A s1 \in starts : \A s2 \in starts :
           s1 < s2 => (s2 - s1 >= sr /\ s2 - s1 >= Len(tmpl))

\* the signal of n samples that is zero except for a copy of tmpl starting at
\* each sample (index from 0) of starts
Placed(starts, tmpl, n) ==
    [k \in 1..n |->
        IF \E s \in starts : s < k /\ k <= s + Len(tmpl)
        THEN tmpl[k - (CHOOSE s \in starts : s < k /\ k <= s + Len(tmpl))]
        ELSE R(0)]

RECURSIVE Ascending(_)
Ascending(S) ==
    IF S = {} THEN <<>>
    ELSE LET lo == CHOOSE x \in S : \A y \in S : x <= y
         IN  <<lo>> \o Ascending(S \ {lo})

\* the returned peaks are the centres start + len(tmpl)/2 of the copies, each
\* within one sample, none missing and none extra
Recovered(starts, tmpl) ==
    LET asc == Ascending(starts)
    IN  /\ Len(corrected_peaks) = Len(asc)
        /\ \A k \in 1..Len(asc) :
               Abs(2 * corrected_peaks[k] - (2 * asc[k] + Len(tmpl))) <= 2

\* C12: for an enhanced signal that is zero except for copies of the template
\* whose centres are at least sr apart and which lie fully inside the signal,
\* detect_qrs with a threshold factor in (0, 1] returns exactly the centres of
\* the copies, each within one sample.
C12_ExactRecovery ==
    (pc = "detected" /\ threshold_factor[1] > 0 /\ NormFactor(template) # R(0)) =>
        \A starts \in SUBSET (0..(Len(enhanced_QRS) - Len(template))) :
            (/\ WellSeparated(starts, template, Len(enhanced_QRS))
             /\ enhanced_QRS = Placed(starts, template, Len(enhanced_QRS)))
                => Recovered(starts, template)


-----------------------------------------------------------------------------
(* The channel accessor: get_realization_by_index is called on a process  *)
(* and the caller writes into the array it got.                            *)

\* the indices a caller passes
Indices == -3..3

InitProcess ==
    \E proc \in Processes(MaxLen), rate \in SampleRates, i \in Indices :
        /\ pc = "process" /\ err = "none"
        /\ sr = rate
        /\ realizations = proc
        /\ labels = SubSeq(LabelNames, 1, Len(proc))
        /\ index = i
        /\ realization = Unset
        /\ P_len_samples = 0 /\ QRS_len_samples = 0 /\ T_len_samples = 0
        /\ samples_before_QRS = R(0) /\ samples_after_QRS = R(0) /\ peaks = Unset
        /\ real_ECGs = Unset /\ real_ECGs_positions = Unset /\ ECG_averages = Unset
        /\ mu_portions = Unset /\ M_matrixes = Unset /\ estimated_ECGs = Unset
        /\ solveIdle /\ detectorIdle

processRest == <<sr, labels, P_len_samples, QRS_len_samples, T_len_samples,
                 samples_before_QRS, samples_after_QRS, peaks, real_ECGs,
                 real_ECGs_positions, ECG_averages, mu_portions, M_matrixes,
                 estimated_ECGs, solveVars, detectorVars>>

get_realization_by_index ==
    /\ pc = "process"
    /\ IF RealizationError(index) # "none"
       THEN pc' = "access_error" /\ err' = RealizationError(index)
                                 /\ UNCHANGED realization
       ELSE pc' = "returned" /\ realization' = ArrayCopy(realizations[Subscript(index) + 1])
                             /\ UNCHANGED err
    /\ UNCHANGED <<realizations, index, processRest>>

\* the caller stores a value in the returned array; the store reaches the
\* process's channel only if the array shares that channel's memory
write_returned ==
    /\ pc = "returned"
    /\ \E k \in 1..Len(realization.data), v \in SampleValues :
           /\ realization' = [realization EXCEPT !.data[k] = R(v)]
           /\ realizations' =
                  IF realization.base = NoBase THEN realizations
                  ELSE [realizations EXCEPT ![realization.base + 1][k] = R(v)]
    /\ pc' = "written"
    /\ UNCHANGED <<err, index, processRest>>

NextProcess ==
    \/ get_realization_by_index
    \/ write_returned

SpecProcess == InitProcess /\ [][NextProcess]_vars

-----------------------------------------------------------------------------
(* Claims about the channel accessor (specification SpecProcess) *)

Accessed == pc \in {"returned", "written", "access_error"}

InRange == 0 <= index /\ index <= num_realizations - 1

\* C13: get_realization_by_index raises ValueError for every index outside
\* 0 .. num_realizations - 1, negative indices included; for an index inside
\* it returns the samples of the realization stored at that index, and a
\* store into the returned array leaves the process's channels unchanged.
C13_IndexChecked ==
    /\ [](Accessed =>
            /\ ~InRange => (pc = "access_error" /\ err = "ValueError")
            /\ InRange => pc # "access_error"
            /\ (InRange /\ pc = "returned") =>
                   realization.data = realizations[index + 1])
    /\ [][pc = "returned" => realizations' = realizations]_vars


====
